---- MODULE Spec2Model ----
(***************************************************************************)
(* Model of the AHT20 driver (src/DFRobot_AHT20.py) and of the polling     *)
(* front-end (src/main.py).                                                *)
(*                                                                         *)
(* A call of a driver method is one action.  The bus (machine.I2C) and the *)
(* device are the environment: every writeto either succeeds or raises     *)
(* OSError, every readfrom either raises OSError or returns the requested  *)
(* number of bytes, drawn from a sample of device answers.  Each method is *)
(* an operator that yields the set of its possible runs, a run being the   *)
(* record of how the call ended and of the bus events it caused, in order. *)
(*                                                                         *)
(* The floats _humidity and _temperature are held exactly, scaled by 2^20: *)
(* the code divides an integer below 2^28 by 0x100000, which is exact in   *)
(* binary floating point.                                                  *)
(***************************************************************************)
EXTENDS Integers, Sequences, FiniteSets, TLC

VARIABLES
    _humidity,      \* self._humidity * 2^20
    _temperature,   \* self._temperature * 2^20
    op,             \* the last call made: its name
    crc_arg,        \* the last call's crc_en argument (FALSE when it has none)
    ret,            \* how it returned: "True", "False", "None", "value", "-" (none)
    exc,            \* the exception that escaped it: "none", "OSError", ...
    val,            \* the number the last call returned, an accessor's (else 0)
    bus,            \* the bus events of the last call, in order
    pre,            \* the stored reading when the last call started
    begins,         \* how many begin() calls have returned True, up to MaxBegins
    measured,       \* some start_measurement_ready() has returned True
    mainpc,         \* main.py: "boot", "loop", "exited", "crashed"
    after_reset,    \* reset() has returned and no begin() has returned True since
    arg,            \* the arguments of the last call, where the model draws them
    device_address, \* I2CDevice.device_address; 0 while there is no I2CDevice
    out             \* what the last call left its caller besides ret: the output
                    \* read_sensor printed, the caller's buffer, a set of results

vars == <<_humidity, _temperature, op, crc_arg, ret, exc, val, bus, pre,
          begins, measured, mainpc, after_reset, arg, device_address, out>>

----------------------------------------------------------------------------
(* Bit operations on naturals, as Python's &, |, ^, <<, >> compute them.   *)

RECURSIVE And(_, _)
And(a, b) ==
    IF a = 0 \/ b = 0 THEN 0
    ELSE (IF a % 2 = 1 /\ b % 2 = 1 THEN 1 ELSE 0) + 2 * And(a \div 2, b \div 2)

RECURSIVE Or(_, _)
Or(a, b) ==
    IF a = 0 THEN b
    ELSE IF b = 0 THEN a
    ELSE (IF a % 2 = 1 \/ b % 2 = 1 THEN 1 ELSE 0) + 2 * Or(a \div 2, b \div 2)

RECURSIVE Xor(_, _)
Xor(a, b) ==
    IF a = 0 THEN b
    ELSE IF b = 0 THEN a
    ELSE ((a + b) % 2) + 2 * Xor(a \div 2, b \div 2)

RECURSIVE Pow2(_)
Pow2(n) == IF n = 0 THEN 1 ELSE 2 * Pow2(n - 1)

Shl(a, n) == a * Pow2(n)
Shr(a, n) == a \div Pow2(n)

----------------------------------------------------------------------------
(* The class constants.                                                    *)

AHT20_DEF_I2C_ADDR == 56                         \* 0x38
\* CMD_INIT is a str literal, not bytes: MicroPython hands writeto the UTF-8
\* encoding of the string, in which the character U+00BE is the two bytes
\* 0xC2 0xBE.
CMD_INIT == <<194, 190, 8, 0>>
CMD_INIT_TIME == 10                              \* 0.01 s, in ms
CMD_MEASUREMENT == <<172, 51, 0>>                \* b'\xAC\x33\x00'
CMD_MEASUREMENT_TIME == 80                       \* 0.08 s, in ms
CMD_MEASUREMENT_DATA_LEN == 6
CMD_MEASUREMENT_DATA_CRC_LEN == 7
CMD_SOFT_RESET == <<186>>                        \* b'\xBA'
CMD_SOFT_RESET_TIME == 20                        \* 0.02 s, in ms
CMD_STATUS == <<113>>                            \* b'\x71'

----------------------------------------------------------------------------
(* The environment: what the device may answer.                            *)

\* Status bytes: 0x00, 0x08 (calibrated), 0x10, 0x18 (calibrated), 0x80 (busy),
\* 0x98 (busy, calibrated).
StatusSamples == {0, 8, 16, 24, 128, 152}

\* Byte 0 of a measurement frame: 0x1C (idle) or 0x9C (busy).
FrameStatusSamples == {28, 156}

\* Bytes 1..5 of a measurement frame: the first MaxFrameData of these.
MaxFrameData == 4
FrameDataList ==
    << <<0, 0, 0, 0, 0>>, <<27, 51, 90, 154, 59>>, <<128, 0, 15, 0, 1>>,
       <<255, 255, 255, 255, 255>>, <<18, 52, 86, 120, 154>>,
       <<1, 35, 69, 103, 137>> >>
FrameDataSamples ==
    { FrameDataList[i] : i \in { j \in 1..Len(FrameDataList) : j <= MaxFrameData } }

\* Byte 6 of a measurement frame with CRC: the CRC-8 of some of the frames
\* above (88, 107, 122, 142 with byte 0 = 0x1C, 180 with byte 0 = 0x9C) and
\* values that are the CRC-8 of none.
FrameCrcSamples == {0, 50, 88, 107, 122, 142, 180, 255}

Frames6 == { <<s>> \o d : s \in FrameStatusSamples, d \in FrameDataSamples }
Frames7 == { f \o <<c>> : f \in Frames6, c \in FrameCrcSamples }

DeviceBytes(n) ==
    IF n = 1 THEN { <<s>> : s \in StatusSamples }
    ELSE IF n = 6 THEN Frames6
    ELSE IF n = 7 THEN Frames7
    ELSE {}

----------------------------------------------------------------------------
(* Bus events and the machine.I2C primitives.                              *)

Ev(what, addr, data, n, ok) ==
    [op |-> what, addr |-> addr, data |-> data, n |-> n, ok |-> ok]

\* time.sleep(t)
sleep(ms) == Ev("sleep", 0, <<>>, ms, TRUE)

\* self._i2c.writeto(addr, buf): done, or OSError
writeto(addr, buf) ==
    { [exc |-> e, log |-> <<Ev("writeto", addr, buf, Len(buf), e = "none")>>] :
        e \in {"none", "OSError"} }

\* self._i2c.readfrom(addr, n): n bytes, or OSError
readfrom(addr, n) ==
    { [exc |-> "OSError", ret |-> <<>>,
       log |-> <<Ev("readfrom", addr, <<>>, n, FALSE)>>] }
    \cup
    { [exc |-> "none", ret |-> d,
       log |-> <<Ev("readfrom", addr, d, n, TRUE)>>] : d \in DeviceBytes(n) }

----------------------------------------------------------------------------
(* DFRobot_AHT20: the private helpers.                                     *)

\* self._addr, set by __init__
_addr == AHT20_DEF_I2C_ADDR

\* _write_command(cmd): the write, or the OSError it raises
_write_command(cmd) == writeto(_addr, cmd)

\* _read_data(len): the bytes read, or [] when the read raised
_read_data(len) ==
    { [exc |-> "none", ret |-> r.ret, log |-> r.log] : r \in readfrom(_addr, len) }

\* _get_status_data with a read that gave nothing counted as a ready status
_get_status_data_failed_ready ==
    UNION { IF w.exc # "none"
            THEN { [exc |-> w.exc, ret |-> 0, log |-> w.log] }
            ELSE { [exc |-> "none",
                    ret |-> IF Len(status.ret) # 0 THEN status.ret[1] ELSE 8,
                    log |-> w.log \o status.log] : status \in _read_data(1) }
          : w \in writeto(_addr, CMD_STATUS) }

\* _get_status_data(): status[0], or 0 when the read gave nothing; the
\* writeto of CMD_STATUS is outside any try
_get_status_data ==
    UNION { IF w.exc # "none"
            THEN { [exc |-> w.exc, ret |-> 0, log |-> w.log] }
            ELSE { [exc |-> "none",
                    ret |-> IF Len(status.ret) # 0 THEN status.ret[1] ELSE 0,
                    log |-> w.log \o status.log] : status \in _read_data(1) }
          : w \in writeto(_addr, CMD_STATUS) }

\* status_ready with `if status:` for `if status & 0x08:`
status_ready_nonzero(status) == status # 0

\* the test `status & 0x08` of _ready and _init
status_ready(status) == And(status, 8) # 0

\* _ready with the busy bit tested for the ready bit: ready when not busy
_ready_not_busy ==
    { [exc |-> g.exc, ret |-> (g.exc = "none" /\ And(g.ret, 128) = 0), log |-> g.log] :
        g \in _get_status_data }

\* _ready()
_ready ==
    { [exc |-> g.exc, ret |-> (g.exc = "none" /\ status_ready(g.ret)), log |-> g.log] :
        g \in _get_status_data }

\* _init(), from `self._write_command(self.CMD_INIT)` on
init_command(log) ==
    UNION {
        IF w.exc # "none"
        THEN { [exc |-> w.exc, ret |-> FALSE, log |-> log \o w.log] }
        ELSE { [exc |-> g.exc,
                ret |-> (g.exc = "none" /\ status_ready(g.ret)),
                log |-> log \o w.log \o <<sleep(CMD_INIT_TIME)>> \o g.log] :
                 g \in _get_status_data }
        : w \in _write_command(CMD_INIT) }

\* init_after_status without the early return on a ready status
init_after_status_no_check(status, log) == init_command(log)

\* _init(), from its second statement on: status is the first status read
init_after_status(status, log) ==
    IF status_ready(status)
    THEN { [exc |-> "none", ret |-> TRUE, log |-> log] }
    ELSE init_command(log)

\* _init()
_init ==
    UNION { IF g.exc # "none"
            THEN { [exc |-> g.exc, ret |-> FALSE, log |-> g.log] }
            ELSE init_after_status(g.ret, g.log)
          : g \in _get_status_data }

\* The accumulator crc of _check_crc8 is a Python int, which the loops never
\* mask: it is held whole, as the pair of its low byte (crc mod 256) and the
\* bits of crc div 256, least significant first.
\* crc = 0xFF
CrcStart == [low |-> 255, high |-> <<>>]

\* crc <<= 1
Shl1(crc) ==
    [low |-> (2 * crc.low) % 256, high |-> <<crc.low \div 128>> \o crc.high]

\* crc ^= b, for a byte b
XorByte(crc, b) == [low |-> Xor(crc.low, b), high |-> crc.high]

\* Bit7 with `crc >= 0x80` for `crc & 0x80`
Bit7_or_above(crc) ==
    crc.low >= 128 \/ \E i \in 1..Len(crc.high) : crc.high[i] = 1

\* crc & 0x80
Bit7(crc) == And(crc.low, 128) # 0

\* crc & 0xFF
LowByte(crc) == crc.low

\* the inner loop of _check_crc8: while i > 0
RECURSIVE crc8_bits(_, _)
crc8_bits(crc, i) ==
    IF i > 0
    THEN IF Bit7(crc)
         THEN crc8_bits(XorByte(Shl1(crc), 49), i - 1)
         ELSE crc8_bits(Shl1(crc), i - 1)
    ELSE crc

\* the outer loop of _check_crc8: while pos < size
RECURSIVE crc8_bytes(_, _, _)
crc8_bytes(crc, data, pos) ==
    IF pos < Len(data)
    THEN crc8_bytes(crc8_bits(XorByte(crc, data[pos + 1]), 8), data, pos + 1)
    ELSE crc

\* _check_crc8 without `crc &= 0xFF`
_check_crc8_no_mask(crc8, data) ==
    LET crc == crc8_bytes(CrcStart, data, 0)
    IN  crc8 = crc.low /\ \A i \in 1..Len(crc.high) : crc.high[i] = 0

\* _check_crc8 with the accumulator started at 0 for 0xFF
_check_crc8_init0(crc8, data) ==
    LET crc == LowByte(crc8_bytes([low |-> 0, high |-> <<>>], data, 0))
    IN  crc8 = crc

\* _check_crc8(crc8, data)
_check_crc8(crc8, data) ==
    LET crc == LowByte(crc8_bytes(CrcStart, data, 0))
    IN  crc8 = crc

----------------------------------------------------------------------------
(* DFRobot_AHT20: the public methods.                                      *)

\* begin()
begin ==
    { [exc |-> r.exc,
       ret |-> IF r.exc # "none" THEN "-" ELSE IF r.ret # TRUE THEN "False" ELSE "True",
       log |-> r.log] : r \in _init }

\* reset without the wait after the command
reset_no_wait ==
    { [exc |-> w.exc,
       ret |-> IF w.exc # "none" THEN "-" ELSE "None",
       log |-> w.log] : w \in _write_command(CMD_SOFT_RESET) }

\* reset()
reset ==
    { [exc |-> w.exc,
       ret |-> IF w.exc # "none" THEN "-" ELSE "None",
       log |-> IF w.exc # "none" THEN w.log
               ELSE w.log \o <<sleep(CMD_SOFT_RESET_TIME)>>] :
        w \in _write_command(CMD_SOFT_RESET) }

\* recv_len with the two lengths exchanged
recv_len_swapped(crc_en) ==
    IF crc_en THEN CMD_MEASUREMENT_DATA_LEN ELSE CMD_MEASUREMENT_DATA_CRC_LEN

\* recv_len of start_measurement_ready
recv_len(crc_en) ==
    IF crc_en THEN CMD_MEASUREMENT_DATA_CRC_LEN ELSE CMD_MEASUREMENT_DATA_LEN

\* frame_busy with the mask 0x40 for 0x80
frame_busy_bit6(l_data) == And(l_data[1], 64) # 0

\* the test `l_data[0] & 0x80`
frame_busy(l_data) == And(l_data[1], 128) # 0

\* the test `crc_en and self._check_crc8(l_data[6], l_data[:6]) == False`
crc_failed(crc_en, l_data) ==
    crc_en /\ (_check_crc8(l_data[7], SubSeq(l_data, 1, 6)) = FALSE)

\* humidity_of with the factor 200.0 of the temperature
humidity_of_times_200(l_data) ==
    LET t1 == l_data[2]
        t2 == Shl(t1, 8)
        t3 == Or(t2, l_data[3])
        t4 == Shl(t3, 4)
        t5 == Or(t4, Shr(l_data[4], 4))
    IN  And(t5, 1048575) * 200

\* the 20-bit humidity field, times 100.0 (self._humidity * 2^20)
humidity_of(l_data) ==
    LET t1 == l_data[2]
        t2 == Shl(t1, 8)
        t3 == Or(t2, l_data[3])
        t4 == Shl(t3, 4)
        t5 == Or(t4, Shr(l_data[4], 4))
    IN  And(t5, 1048575) * 100

\* temperature_of with l_data[4] and l_data[5] exchanged
temperature_of_bytes_exchanged(l_data) ==
    LET t1 == And(l_data[4], 15)
        t2 == Shl(t1, 8)
        t3 == Or(t2, l_data[6])
        t4 == Shl(t3, 8)
        t5 == Or(t4, l_data[5])
    IN  And(t5, 1048575) * 200 - 50 * 1048576

\* the 20-bit temperature field, times 200.0, less 50 (self._temperature * 2^20)
temperature_of(l_data) ==
    LET t1 == And(l_data[4], 15)
        t2 == Shl(t1, 8)
        t3 == Or(t2, l_data[5])
        t4 == Shl(t3, 8)
        t5 == Or(t4, l_data[6])
    IN  And(t5, 1048575) * 200 - 50 * 1048576

\* A run of start_measurement_ready that ends before the two assignments to
\* self._humidity and self._temperature: stored is FALSE
no_store(e, r, log) ==
    [exc |-> e, ret |-> r, log |-> log,
     stored |-> FALSE, humidity |-> 0, temperature |-> 0]

\* measurement_done with the two fields decoded and stored before the busy
\* and CRC tests
measurement_done_store_first(crc_en, l_data, log) ==
    IF Len(l_data) = 0
    THEN no_store("IndexError", "-", log)
    ELSE [exc |-> "none",
          ret |-> IF frame_busy(l_data) \/ crc_failed(crc_en, l_data)
                  THEN "False" ELSE "True",
          log |-> log,
          stored |-> TRUE,
          humidity |-> humidity_of(l_data), temperature |-> temperature_of(l_data)]

\* start_measurement_ready(), from `if l_data[0] & 0x80` on: l_data is what
\* _read_data gave; a run that reaches the two assignments has stored TRUE
\* and the values assigned
measurement_done(crc_en, l_data, log) ==
    IF Len(l_data) = 0
    THEN no_store("IndexError", "-", log)        \* l_data[0] of the empty list
    ELSE IF frame_busy(l_data)
    THEN no_store("none", "False", log)
    ELSE IF crc_failed(crc_en, l_data)
    THEN no_store("none", "False", log)
    ELSE [exc |-> "none", ret |-> "True", log |-> log,
          stored |-> TRUE,
          humidity |-> humidity_of(l_data), temperature |-> temperature_of(l_data)]

\* start_measurement_ready(crc_en)
start_measurement_ready(crc_en) ==
    UNION {
        IF rd.exc # "none"
        THEN { no_store(rd.exc, "-", rd.log) }
        ELSE IF rd.ret = FALSE
        THEN { no_store("none", "False", rd.log) }
        ELSE UNION {
            IF w.exc # "none"
            THEN { no_store(w.exc, "-", rd.log \o w.log) }
            ELSE { measurement_done(crc_en, l.ret,
                       rd.log \o w.log \o <<sleep(CMD_MEASUREMENT_TIME)>> \o l.log) :
                     l \in _read_data(recv_len(crc_en)) }
            : w \in _write_command(CMD_MEASUREMENT) }
        : rd \in _ready }

\* the runs of start_measurement_ready(), and of start_measurement_ready(True)
measurement_runs == start_measurement_ready(FALSE)
measurement_runs_crc == start_measurement_ready(TRUE)

\* get_temperature_F(): C * 1.8 + 32, as the numerator over 5 * 2^20
get_temperature_F(t) == 9 * t + 160 * 1048576

\* get_temperature_C()
get_temperature_C(t) == t

\* get_humidity_RH()
get_humidity_RH(h) == h

----------------------------------------------------------------------------
(* The driver under any sequence of calls.                                 *)

Init ==
    /\ _humidity = 0
    /\ _temperature = 0
    /\ op = "none"
    /\ crc_arg = FALSE
    /\ ret = "-"
    /\ exc = "none"
    /\ val = 0
    /\ bus = <<>>
    /\ pre = [humidity |-> 0, temperature |-> 0]
    /\ begins = 0
    /\ measured = FALSE
    /\ mainpc = "boot"
    /\ after_reset = FALSE
    /\ arg = <<>>
    /\ device_address = 0
    /\ out = <<>>

Reading == [humidity |-> _humidity, temperature |-> _temperature]

\* The count of successful begin() calls is kept up to MaxBegins.
MaxBegins == 2
Began(n, r) == IF r = "True" /\ n < MaxBegins THEN n + 1 ELSE n

\* some begin() on this driver has returned True
begun == begins > 0

CallBegin ==
    \E r \in begin :
        /\ op' = "begin"
        /\ crc_arg' = FALSE
        /\ ret' = r.ret
        /\ exc' = r.exc
        /\ val' = 0
        /\ bus' = r.log
        /\ pre' = Reading
        /\ begins' = Began(begins, r.ret)
        /\ after_reset' = (after_reset /\ r.ret # "True")
        /\ UNCHANGED <<_humidity, _temperature, measured, mainpc, arg, device_address, out>>

CallReset ==
    \E r \in reset :
        /\ op' = "reset"
        /\ crc_arg' = FALSE
        /\ ret' = r.ret
        /\ exc' = r.exc
        /\ val' = 0
        /\ bus' = r.log
        /\ pre' = Reading
        /\ after_reset' = (after_reset \/ r.exc = "none")
        /\ UNCHANGED <<_humidity, _temperature, begins, measured, mainpc, arg, device_address, out>>

CallStartMeasurementReady ==
    \E c \in BOOLEAN :
        \E r \in (IF c THEN measurement_runs_crc ELSE measurement_runs) :
            /\ op' = "start_measurement_ready"
            /\ crc_arg' = c
            /\ ret' = r.ret
            /\ exc' = r.exc
            /\ val' = 0
            /\ bus' = r.log
            /\ pre' = Reading
            /\ _humidity' = IF r.stored THEN r.humidity ELSE _humidity
            /\ _temperature' = IF r.stored THEN r.temperature ELSE _temperature
            /\ measured' = (measured \/ r.ret = "True")
            /\ UNCHANGED <<begins, mainpc, after_reset, arg, device_address, out>>

Accessor(name, v) ==
    /\ op' = name
    /\ crc_arg' = FALSE
    /\ ret' = "value"
    /\ exc' = "none"
    /\ val' = v
    /\ bus' = <<>>
    /\ pre' = Reading
    /\ UNCHANGED <<_humidity, _temperature, begins, measured, mainpc,
                   after_reset, arg, device_address, out>>

CallGetTemperatureF == Accessor("get_temperature_F", get_temperature_F(_temperature))

CallGetTemperatureC == Accessor("get_temperature_C", get_temperature_C(_temperature))

CallGetHumidityRH == Accessor("get_humidity_RH", get_humidity_RH(_humidity))

Next ==
    \/ CallBegin
    \/ CallReset
    \/ CallStartMeasurementReady
    \/ CallGetTemperatureF
    \/ CallGetTemperatureC
    \/ CallGetHumidityRH

Spec == Init /\ [][Next]_vars

----------------------------------------------------------------------------
(* main.py: the polling front-end.                                         *)

\* A run of read_sensor that did not reach start_measurement_ready
no_measurement(e, r, log, began) ==
    [exc |-> e, ret |-> r, log |-> log, began |-> began,
     measurement |-> "-", stored |-> FALSE, humidity |-> 0, temperature |-> 0]

\* read_sensor(sensor): `except OSError` catches an OSError and nothing else;
\* sys.exit(1) raises SystemExit
read_sensor ==
    UNION {
        IF b.exc = "OSError"
        THEN { no_measurement("none", "None", b.log, FALSE) }
        ELSE IF b.ret # "True"
        THEN { no_measurement("SystemExit", "-", b.log, FALSE) }
        ELSE { [exc |-> IF m.exc = "OSError" THEN "none" ELSE m.exc,
                ret |-> IF m.exc = "OSError" THEN "None"
                        ELSE IF m.exc # "none" THEN "-" ELSE "json",
                log |-> b.log \o m.log,
                began |-> TRUE,
                measurement |-> m.ret,
                stored |-> m.stored,
                humidity |-> m.humidity,
                temperature |-> m.temperature] : m \in measurement_runs }
        : b \in begin }

\* The text of `{x:3.1f}` for the float x / 2^20: the sign and the tenths of
\* x rounded to one decimal, ties to even; the width 3 only pads.
format_3_1f(x) ==
    LET a == IF x < 0 THEN -x ELSE x
        q == (10 * a) \div 1048576
        rest == (10 * a) % 1048576
        up == 2 * rest > 1048576 \/ (2 * rest = 1048576 /\ q % 2 = 1)
    IN  [neg |-> x < 0, tenths |-> IF up THEN q + 1 ELSE q]

\* What a run of read_sensor whose measurement returned printed and put in
\* its JSON, with what the measurement returned; h and t are the reading
\* after the measurement.
printed(measurement, h, t) ==
    [measurement |-> measurement,
     temperature |-> format_3_1f(get_temperature_C(t)),
     humidity |-> format_3_1f(get_humidity_RH(h))]

\* line 9: sensor.begin(), its result unused
MainBoot ==
    /\ mainpc = "boot"
    /\ \E b \in begin :
        /\ op' = "main"
        /\ ret' = "-"
        /\ exc' = b.exc
        /\ bus' = b.log
        /\ begins' = Began(begins, b.ret)
        /\ mainpc' = IF b.exc # "none" THEN "crashed" ELSE "loop"
    /\ crc_arg' = FALSE
    /\ val' = 0
    /\ pre' = Reading
    /\ UNCHANGED <<_humidity, _temperature, measured, after_reset, arg, device_address, out>>

\* one turn of `while True: read_sensor(sensor); time.sleep(1)`
PollCycle ==
    /\ mainpc = "loop"
    /\ \E r \in read_sensor :
        /\ op' = "read_sensor"
        /\ ret' = r.ret
        /\ exc' = r.exc
        /\ bus' = r.log
        /\ begins' = Began(begins, IF r.began THEN "True" ELSE "False")
        /\ measured' = (measured \/ r.measurement = "True")
        /\ _humidity' = IF r.stored THEN r.humidity ELSE _humidity
        /\ _temperature' = IF r.stored THEN r.temperature ELSE _temperature
        /\ mainpc' = IF r.exc = "SystemExit" THEN "exited"
                     ELSE IF r.exc # "none" THEN "crashed"
                     ELSE "loop"
        /\ out' = IF r.ret = "json"
                  THEN printed(r.measurement,
                               IF r.stored THEN r.humidity ELSE _humidity,
                               IF r.stored THEN r.temperature ELSE _temperature)
                  ELSE <<>>
    /\ crc_arg' = FALSE
    /\ val' = 0
    /\ pre' = Reading
    /\ UNCHANGED <<after_reset, arg, device_address>>

MainNext == MainBoot \/ PollCycle

MainSpec == Init /\ [][MainNext]_vars

----------------------------------------------------------------------------
(* The decoding of a frame, lines 89 to 110 of start_measurement_ready, on *)
(* frames drawn from every combination of the sample bytes below.          *)

\* Byte 0 of a frame: three without the busy bit and one with it.
DecodeStatusSamples == {0, 28, 127, 156}

\* Bytes 1, 2, 4 and 5 of a frame.
DecodeByteSamples == {0, 1, 128, 255}

\* Byte 3 of a frame, which holds a nibble of each field.
DecodeNibbleSamples == {0, 15, 90, 165, 240, 255}

\* l_data as _read_data gave it: 6 bytes, or 7 with a CRC byte
DecodeFrames ==
    { <<b0, b1, b2, b3, b4, b5>> :
        b0 \in DecodeStatusSamples, b1 \in DecodeByteSamples,
        b2 \in DecodeByteSamples, b3 \in DecodeNibbleSamples,
        b4 \in DecodeByteSamples, b5 \in DecodeByteSamples }
    \cup Frames7

DecodeInit ==
    /\ _humidity = 0
    /\ _temperature = 0
    /\ op = "none"
    /\ crc_arg = FALSE
    /\ ret = "-"
    /\ exc = "none"
    /\ val = 0
    /\ bus = <<>>
    /\ pre = [humidity |-> 0, temperature |-> 0]
    /\ begins = 0
    /\ measured = FALSE
    /\ mainpc = "boot"
    /\ after_reset = FALSE
    /\ arg \in DecodeFrames
    /\ device_address = 0
    /\ out = <<>>

\* start_measurement_ready from line 89 on, l_data being arg; CRC checking
\* is enabled when the frame has the CRC byte
Decode ==
    /\ op = "none"
    /\ LET crc_en == Len(arg) = CMD_MEASUREMENT_DATA_CRC_LEN
           m == measurement_done(crc_en, arg, <<>>)
       IN  /\ op' = "measurement_done"
           /\ crc_arg' = crc_en
           /\ ret' = m.ret
           /\ exc' = m.exc
           /\ bus' = m.log
           /\ measured' = (m.ret = "True")
           /\ _humidity' = IF m.stored THEN m.humidity ELSE _humidity
           /\ _temperature' = IF m.stored THEN m.temperature ELSE _temperature
    /\ val' = 0
    /\ pre' = Reading
    /\ UNCHANGED <<begins, mainpc, after_reset, arg, device_address, out>>

DecodeSpec == DecodeInit /\ [][Decode]_vars

----------------------------------------------------------------------------
(* _check_crc8 on data drawn from the sample sequences below, and the CRC  *)
(* test of start_measurement_ready on the 6-byte ones with a byte added.   *)

CrcByteSamples == {0, 28, 165, 255}

\* The greatest length of the sequences of sample bytes.
MaxCrcLen == 3

RECURSIVE SeqsUpTo(_, _)
SeqsUpTo(S, n) ==
    IF n = 0 THEN { <<>> }
    ELSE LET shorter == SeqsUpTo(S, n - 1)
         IN  shorter \cup { <<b>> \o q : b \in S, q \in { t \in shorter : Len(t) = n - 1 } }

\* data of _check_crc8: the short sequences, the frames of the device and
\* the 6-byte sequences of 0x1C and 0xA5
CrcData ==
    SeqsUpTo(CrcByteSamples, MaxCrcLen) \cup Frames6
    \cup { <<b0, b1, b2, b3, b4, b5>> :
             b0 \in {28, 165}, b1 \in {28, 165}, b2 \in {28, 165},
             b3 \in {28, 165}, b4 \in {28, 165}, b5 \in {28, 165} }

CrcInit ==
    /\ _humidity = 0
    /\ _temperature = 0
    /\ op = "none"
    /\ crc_arg = FALSE
    /\ ret = "-"
    /\ exc = "none"
    /\ val = 0
    /\ bus = <<>>
    /\ pre = [humidity |-> 0, temperature |-> 0]
    /\ begins = 0
    /\ measured = FALSE
    /\ mainpc = "boot"
    /\ after_reset = FALSE
    /\ arg \in CrcData
    /\ device_address = 0
    /\ out = <<>>

\* _check_crc8(c, arg) for every byte c: out is the set of those for which
\* it returns True
CallCheckCrc8 ==
    /\ op = "none"
    /\ op' = "_check_crc8"
    /\ out' = { c \in 0..255 : _check_crc8(c, arg) }
    /\ pre' = Reading
    /\ UNCHANGED <<_humidity, _temperature, crc_arg, ret, exc, val, bus,
                   begins, measured, mainpc, after_reset, arg, device_address>>

\* start_measurement_ready(True) from line 89 on, l_data being the 6 bytes
\* of arg and a byte c
DecodeWithCrc ==
    /\ op = "_check_crc8"
    /\ Len(arg) = CMD_MEASUREMENT_DATA_LEN
    /\ \E c \in 0..255 :
        LET m == measurement_done(TRUE, arg \o <<c>>, <<>>)
        IN  /\ op' = "measurement_done"
            /\ crc_arg' = TRUE
            /\ val' = c
            /\ ret' = m.ret
            /\ exc' = m.exc
            /\ bus' = m.log
            /\ measured' = (m.ret = "True")
            /\ _humidity' = IF m.stored THEN m.humidity ELSE _humidity
            /\ _temperature' = IF m.stored THEN m.temperature ELSE _temperature
    /\ pre' = Reading
    /\ UNCHANGED <<begins, mainpc, after_reset, arg, device_address, out>>

CrcNext == CallCheckCrc8 \/ DecodeWithCrc

CrcSpec == CrcInit /\ [][CrcNext]_vars

----------------------------------------------------------------------------
(* i2c.py: the class I2CDevice.                                            *)

\* The addresses an I2CDevice is made for.
I2CAddressSamples == {56, 57}

\* The bytes of the buffers of the callers and of the answers of the device.
I2CByteSamples == {0, 255}

\* The greatest length of a buffer handed to readinto and write.
MaxBufLen == 2

I2CBuffers == SeqsUpTo(I2CByteSamples, MaxBufLen)

\* self.i2c.readfrom_into(addr, buf): OSError, or buf filled by the device;
\* ret is buf after the call
readfrom_into(addr, buf) ==
    { [exc |-> "OSError", ret |-> buf,
       log |-> <<Ev("readfrom_into", addr, <<>>, Len(buf), FALSE)>>] }
    \cup { [exc |-> "none", ret |-> d,
            log |-> <<Ev("readfrom_into", addr, d, Len(buf), TRUE)>>] :
            d \in { b \in I2CBuffers : Len(b) = Len(buf) } }

\* buf[start : end] for start and end not negative: a new sequence
Slice(buf, start, end) ==
    LET hi == IF end < Len(buf) THEN end ELSE Len(buf)
    IN  IF start < hi THEN SubSeq(buf, start + 1, hi) ELSE <<>>

\* `if end is None: end = len(buf)`
end_or_len(buf, end_given, end) == IF end_given THEN end ELSE Len(buf)

\* readinto(buf, start=start, end=end): the slice is a new bytearray, which
\* readfrom_into fills; buf of a run is the caller's buf after the call
readinto(addr, buf, start, end_given, end) ==
    LET piece == Slice(buf, start, end_or_len(buf, end_given, end))
    IN  { [exc |-> r.exc, log |-> r.log, buf |-> buf] :
            r \in readfrom_into(addr, piece) }

\* write(buf, start=start, end=end)
write(addr, buf, start, end_given, end) ==
    writeto(addr, Slice(buf, start, end_or_len(buf, end_given, end)))

\* __probe_for_device without the retry by a read
probe_for_device_no_retry(addr) ==
    { [exc |-> IF w.exc = "OSError" THEN "ValueError" ELSE w.exc, log |-> w.log] :
        w \in writeto(addr, <<>>) }

\* __probe_for_device()
probe_for_device(addr) ==
    UNION { IF w.exc # "OSError"
            THEN { [exc |-> w.exc, log |-> w.log] }
            ELSE { [exc |-> IF r.exc = "OSError" THEN "ValueError" ELSE r.exc,
                    log |-> w.log \o r.log] :
                     r \in readfrom_into(addr, <<0>>) }
          : w \in writeto(addr, <<>>) }

\* I2CDevice(i2c, device_address, probe)
I2CDevice(addr, probe) ==
    IF probe THEN probe_for_device(addr) ELSE { [exc |-> "none", log |-> <<>>] }

\* There is an I2CDevice: its construction has returned.
constructed == device_address # 0

\* The arguments buf, start and end of readinto and write; end is not given
\* or is an index from start on.
BufferArgs ==
    { [buf |-> b, start |-> s, end_given |-> g, end |-> e] :
        b \in I2CBuffers, s \in 0..MaxBufLen, g \in BOOLEAN, e \in 0..MaxBufLen }

Construct ==
    /\ ~constructed
    /\ \E addr \in I2CAddressSamples, probe \in BOOLEAN :
        \E r \in I2CDevice(addr, probe) :
            /\ op' = "I2CDevice"
            /\ arg' = [device_address |-> addr, probe |-> probe]
            /\ exc' = r.exc
            /\ bus' = r.log
            /\ device_address' = IF r.exc = "none" THEN addr ELSE device_address
    /\ ret' = "-"
    /\ pre' = Reading
    /\ UNCHANGED <<_humidity, _temperature, crc_arg, val, begins, measured,
                   mainpc, after_reset, out>>

CallReadinto ==
    /\ constructed
    /\ \E a \in BufferArgs :
        /\ ~a.end_given => a.end = 0
        /\ \E r \in readinto(device_address, a.buf, a.start, a.end_given, a.end) :
            /\ op' = "readinto"
            /\ arg' = a
            /\ exc' = r.exc
            /\ ret' = IF r.exc = "none" THEN "None" ELSE "-"
            /\ bus' = r.log
            /\ out' = r.buf
    /\ pre' = Reading
    /\ UNCHANGED <<_humidity, _temperature, crc_arg, val, begins, measured,
                   mainpc, after_reset, device_address>>

CallWrite ==
    /\ constructed
    /\ \E a \in BufferArgs :
        /\ ~a.end_given => a.end = 0
        /\ \E r \in write(device_address, a.buf, a.start, a.end_given, a.end) :
            /\ op' = "write"
            /\ arg' = a
            /\ exc' = r.exc
            /\ ret' = IF r.exc = "none" THEN "None" ELSE "-"
            /\ bus' = r.log
            /\ out' = a.buf
    /\ pre' = Reading
    /\ UNCHANGED <<_humidity, _temperature, crc_arg, val, begins, measured,
                   mainpc, after_reset, device_address>>

I2CNext == Construct \/ CallReadinto \/ CallWrite

I2CSpec == Init /\ [][I2CNext]_vars

----------------------------------------------------------------------------
(* Properties.  What they read of a call is its record in op, crc_arg,     *)
(* ret, exc, bus and pre; the tests on bytes are written out here and use  *)
(* none of the driver's operators.                                         *)

DriverOps == {"begin", "reset", "start_measurement_ready"}

Default == [humidity |-> 0, temperature |-> 0]

ReadyBit(b) == (b \div 8) % 2 = 1

BusyBit(b) == (b \div 128) % 2 = 1

IsWrite(e, cmd) == e.op = "writeto" /\ e.data = cmd

\* The call began with a status query that was answered by a byte.
StatusAnswered ==
    /\ Len(bus) >= 2
    /\ IsWrite(bus[1], CMD_STATUS) /\ bus[1].ok
    /\ bus[2].op = "readfrom" /\ bus[2].n = 1 /\ bus[2].ok

FirstStatus == bus[2].data[1]

\* The reads of the call that ask for more than the status byte.
FrameReads == { i \in 1..Len(bus) : bus[i].op = "readfrom" /\ bus[i].n # 1 }

\* The call read a measurement frame: it is the last event.
FrameAnswered ==
    /\ Len(bus) >= 1
    /\ bus[Len(bus)].op = "readfrom" /\ bus[Len(bus)].n # 1 /\ bus[Len(bus)].ok

Frame == bus[Len(bus)].data

\* CRC-8, polynomial 0x31, MSB first, on an 8-bit register.
RECURSIVE Crc8RefBits(_, _)
Crc8RefBits(c, i) ==
    IF i = 0 THEN c
    ELSE IF c >= 128
         THEN Crc8RefBits(Xor((2 * c) % 256, 49), i - 1)
         ELSE Crc8RefBits((2 * c) % 256, i - 1)

RECURSIVE Crc8RefBytes(_, _)
Crc8RefBytes(c, data) ==
    IF data = <<>> THEN c
    ELSE Crc8RefBytes(Crc8RefBits(Xor(c, Head(data)), 8), Tail(data))

\* initial value 0xFF
Crc8Ref(data) == Crc8RefBytes(255, data)

\* C1: the stored reading changes only in a start_measurement_ready call
\* that returns True: after every other call (one that returns False, one
\* that ends in an exception, a begin, a reset, an accessor) it is what it was
\* before the call, and it is (0.0, 0.0) until a measurement has succeeded.
C1_ReadingChangesOnlyOnSuccess ==
    /\ ~(op = "start_measurement_ready" /\ ret = "True") => Reading = pre
    /\ ~measured => Reading = Default

\* A measurement that failed on its frame, after one that had succeeded.
C1_Witness ==
    /\ op = "start_measurement_ready" /\ ret = "False" /\ FrameAnswered
    /\ measured /\ pre # Default /\ Reading = pre

\* C2, as claimed: a start_measurement_ready call that returns, made when no
\* begin() has returned True, returns False and leaves the reading at
\* (0.0, 0.0), whatever the device's status byte is.
C2_FailsBeforeBegin ==
    (op = "start_measurement_ready" /\ ~begun /\ exc = "none")
        => (ret = "False" /\ Reading = Default)

\* C2, amended: the driver keeps no record of begin(); a
\* start_measurement_ready call made when no begin() has returned True
\* returns False and leaves the reading as it was ((0.0, 0.0) when no
\* measurement has succeeded) when the status byte it reads has the ready
\* bit clear.
C2_FailsBeforeBeginWhenNotReady ==
    (op = "start_measurement_ready" /\ ~begun
     /\ StatusAnswered /\ ~ReadyBit(FirstStatus))
        => /\ ret = "False" /\ exc = "none"
           /\ Reading = pre
           /\ (~measured => Reading = Default)

\* No begin(), no measurement yet, a status byte without the ready bit.
C2_Witness ==
    /\ op = "start_measurement_ready" /\ ~begun /\ ~measured
    /\ StatusAnswered /\ FirstStatus = 16
    /\ ret = "False" /\ Reading = Default

\* C3, as claimed, for a bus read that fails: begin, reset and
\* start_measurement_ready end by returning a value, never by an exception
\* that escapes to the caller, when the status read or the frame read of the
\* call fails (the writes of the call being done).
C3_NoExceptionEscapes ==
    (op \in DriverOps /\ \A i \in 1..Len(bus) : bus[i].op = "writeto" => bus[i].ok)
        => (exc = "none" /\ ret \in {"True", "False", "None"})

\* C4: when the status byte read at the start of start_measurement_ready has
\* the ready bit clear, the call returns False at once: the status query is
\* all it puts on the bus (no MEASURE write, no frame read) and the reading
\* is unchanged.
C4_NotReadyReturnsAtOnce ==
    (op = "start_measurement_ready" /\ StatusAnswered /\ ~ReadyBit(FirstStatus))
        => /\ ret = "False" /\ exc = "none"
           /\ Len(bus) = 2
           /\ \A i \in 1..Len(bus) : ~IsWrite(bus[i], CMD_MEASUREMENT)
           /\ FrameReads = {}
           /\ Reading = pre

\* A busy, uncalibrated status after a successful measurement.
C4_Witness ==
    /\ op = "start_measurement_ready" /\ StatusAnswered /\ FirstStatus = 128
    /\ ret = "False" /\ pre # Default /\ Reading = pre

\* C5: a begin() whose first status read has the ready bit set returns True
\* and writes no INIT command: the status query is all it puts on the bus.
C5_ReadyBeginWritesNoInit ==
    (op = "begin" /\ StatusAnswered /\ ReadyBit(FirstStatus))
        => /\ ret = "True" /\ exc = "none"
           /\ \A i \in 1..Len(bus) : ~IsWrite(bus[i], CMD_INIT)
           /\ Len(bus) = 2

\* A second begin() that returns True, answered by a status with the ready
\* bit (and the busy bit) set.
C5_Witness ==
    /\ op = "begin" /\ StatusAnswered /\ FirstStatus = 152
    /\ begins = 2 /\ ret = "True" /\ Len(bus) = 2

\* C6, as claimed: a begin() whose first status read has the ready bit clear
\* writes INIT exactly once, waits the init settle time, reads the status
\* exactly once more, and returns True iff that second status byte has the
\* ready bit set.
C6_InitThenOneStatusRead ==
    (op = "begin" /\ StatusAnswered /\ ~ReadyBit(FirstStatus))
        => /\ Len(bus) = 6
           /\ IsWrite(bus[3], CMD_INIT)
           /\ bus[4] = sleep(CMD_INIT_TIME)
           /\ IsWrite(bus[5], CMD_STATUS)
           /\ bus[6].op = "readfrom" /\ bus[6].n = 1
           /\ exc = "none"
           /\ ret \in {"True", "False"}
           /\ (ret = "True") <=> (bus[6].ok /\ ReadyBit(bus[6].data[1]))

\* C7: when byte 0 of the frame read by start_measurement_ready has the busy
\* bit set, the call returns False and the reading keeps its values, whatever
\* the other bytes are, with and without CRC checking.
C7_BusyFrameFails ==
    (op = "start_measurement_ready" /\ FrameAnswered /\ BusyBit(Frame[1]))
        => (ret = "False" /\ exc = "none" /\ Reading = pre)

\* A busy frame whose CRC byte is right, read with CRC checking after a
\* successful measurement.
C7_Witness ==
    /\ op = "start_measurement_ready" /\ crc_arg /\ FrameAnswered
    /\ Frame = <<156, 0, 0, 0, 0, 0, 180>>
    /\ ret = "False" /\ pre # Default /\ Reading = pre

\* C8: with CRC checking, start_measurement_ready returns True only if byte 6
\* of the frame is the CRC-8 (initial value 0xFF, polynomial 0x31, MSB first)
\* of bytes 0..5, and on a mismatch it returns False with the reading
\* unchanged; without CRC checking no seventh byte is read and no frame that
\* is not busy is refused.
C8_CrcDecides ==
    /\ (op = "start_measurement_ready" /\ crc_arg /\ ret = "True")
           => /\ FrameAnswered /\ Len(Frame) = 7
              /\ Frame[7] = Crc8Ref(SubSeq(Frame, 1, 6))
    /\ (op = "start_measurement_ready" /\ crc_arg /\ FrameAnswered
        /\ Frame[7] # Crc8Ref(SubSeq(Frame, 1, 6)))
           => (ret = "False" /\ exc = "none" /\ Reading = pre)
    /\ (op = "start_measurement_ready" /\ ~crc_arg)
           => /\ \A i \in FrameReads : bus[i].n = 6 /\ Len(bus[i].data) <= 6
              /\ (FrameAnswered /\ ~BusyBit(Frame[1])) => ret = "True"

\* A frame with the right CRC byte, accepted with CRC checking.
C8_Witness ==
    /\ op = "start_measurement_ready" /\ crc_arg /\ ret = "True"
    /\ Frame = <<28, 27, 51, 90, 154, 59, 142>>

\* C9, as claimed: in main.py no poll cycle ends the loop: after every cycle
\* the loop is still running.
C9_LoopGoesOn == op = "read_sensor" => mainpc = "loop"

\* C10: a start_measurement_ready call that returns True puts on the bus,
\* after its status query, the MEASURE write, the measurement settle time and
\* one frame read, in this order and nothing else; the frame read asks for 6
\* bytes without CRC checking and 7 with it; and in no call is a frame read
\* without the MEASURE write and the settle time of the same call right
\* before it.
C10_MeasureThenWaitThenRead ==
    /\ (op = "start_measurement_ready" /\ ret = "True")
           => /\ Len(bus) = 5
              /\ IsWrite(bus[1], CMD_STATUS)
              /\ bus[2].op = "readfrom" /\ bus[2].n = 1
              /\ FrameReads = {5}
    /\ \A i \in FrameReads :
           /\ op = "start_measurement_ready"
           /\ i >= 3
           /\ IsWrite(bus[i - 2], CMD_MEASUREMENT) /\ bus[i - 2].ok
           /\ bus[i - 2].addr = AHT20_DEF_I2C_ADDR
           /\ bus[i - 1] = sleep(CMD_MEASUREMENT_TIME)
           /\ bus[i].n = (IF crc_arg THEN 7 ELSE 6)
           /\ Cardinality(FrameReads) = 1

\* A successful measurement with CRC checking.
C10_Witness ==
    /\ op = "start_measurement_ready" /\ crc_arg /\ ret = "True"
    /\ Len(bus) = 5 /\ bus[5].n = 7

\* C11, as claimed: a start_measurement_ready call that returns, made after
\* reset() has returned and before a later begin() has returned True, returns
\* False and does not update the reading.
C11_FailsAfterReset ==
    (op = "start_measurement_ready" /\ after_reset /\ exc = "none")
        => (ret = "False" /\ Reading = pre)

\* C11, amended: reset() writes SOFT_RESET, waits the reset settle time and
\* changes nothing in the driver, which records no state; a
\* start_measurement_ready call made after reset() and before a later begin()
\* has returned True returns False and does not update the reading when the
\* status byte it reads has the ready bit clear.
C11_ResetThenNotReadyFails ==
    /\ (op = "reset" /\ exc = "none")
           => /\ bus = <<Ev("writeto", AHT20_DEF_I2C_ADDR, CMD_SOFT_RESET, 1, TRUE),
                         sleep(CMD_SOFT_RESET_TIME)>>
              /\ ret = "None" /\ after_reset /\ Reading = pre
    /\ (op = "start_measurement_ready" /\ after_reset
        /\ StatusAnswered /\ ~ReadyBit(FirstStatus))
           => (ret = "False" /\ exc = "none" /\ Len(bus) = 2 /\ Reading = pre)

\* After a successful measurement and a reset, a measurement refused on a
\* status byte without the ready bit.
C11_Witness ==
    /\ op = "start_measurement_ready" /\ after_reset /\ measured
    /\ StatusAnswered /\ FirstStatus = 0
    /\ ret = "False" /\ pre # Default /\ Reading = pre

\* C12: every bus write the driver issues is addressed to 0x38 and carries
\* exactly one of the four command byte sequences STATUS = (0x71),
\* INIT = (0xBE, 0x08, 0x00), MEASURE = (0xAC, 0x33, 0x00), SOFT_RESET = (0xBA).
\* Stated for the writes the device acknowledged.
C12_WritesAreCommands ==
    \A i \in 1..Len(bus) :
        (bus[i].op = "writeto" /\ bus[i].ok)
            => /\ bus[i].addr = 56
               /\ bus[i].data \in {<<113>>, <<190, 8, 0>>, <<172, 51, 0>>, <<186>>}

\* The call began with a status query whose read of the status byte raised.
StatusReadFailed ==
    /\ Len(bus) >= 2
    /\ IsWrite(bus[1], CMD_STATUS) /\ bus[1].ok
    /\ bus[2].op = "readfrom" /\ bus[2].n = 1 /\ ~bus[2].ok

\* C18: a failed read of the status byte counts as status 0 and is not
\* propagated.  begin() goes on to write INIT, wait and query the status
\* again, and raises only when one of its writes raises;
\* start_measurement_ready returns False without writing MEASURE and leaves
\* the reading unchanged.
C18_FailedStatusReadIsNotReady ==
    /\ (op = "begin" /\ StatusReadFailed)
           => /\ Len(bus) >= 3
              /\ IsWrite(bus[3], CMD_INIT) /\ bus[3].addr = AHT20_DEF_I2C_ADDR
              /\ bus[3].ok
                     => /\ Len(bus) >= 5
                        /\ bus[4] = sleep(CMD_INIT_TIME)
                        /\ IsWrite(bus[5], CMD_STATUS)
                        /\ bus[5].ok
                               => /\ Len(bus) = 6
                                  /\ bus[6].op = "readfrom" /\ bus[6].n = 1
                                  /\ exc = "none"
                                  /\ ret = IF bus[6].ok /\ ReadyBit(bus[6].data[1])
                                           THEN "True" ELSE "False"
              /\ exc # "none"
                     => (bus[Len(bus)].op = "writeto" /\ ~bus[Len(bus)].ok)
    /\ (op = "start_measurement_ready" /\ StatusReadFailed)
           => /\ ret = "False" /\ exc = "none"
              /\ Len(bus) = 2
              /\ Reading = pre

\* begin() after a failed status read that wrote INIT, queried the status
\* again and was answered by a ready status.
C18_Witness ==
    /\ op = "begin" /\ StatusReadFailed
    /\ Len(bus) = 6 /\ bus[6].ok /\ ret = "True"

\* C15: in a poll cycle of main.py whose measurement returned False, the
\* temperature and humidity that read_sensor prints and returns as JSON are
\* those of the reading before the cycle, which is that of the last
\* successful measurement, 0.0 and 0.0 when there has been none; the values
\* differ from those of the reading before the cycle only in a cycle whose
\* measurement returned True.
C15_FailedCyclePrintsLastReading ==
    (op = "read_sensor" /\ ret = "json")
        => /\ out.measurement = "False"
                  => /\ out.temperature = format_3_1f(pre.temperature)
                     /\ out.humidity = format_3_1f(pre.humidity)
                     /\ ~measured
                            => /\ out.temperature = [neg |-> FALSE, tenths |-> 0]
                               /\ out.humidity = [neg |-> FALSE, tenths |-> 0]
           /\ (\/ out.temperature # format_3_1f(pre.temperature)
               \/ out.humidity # format_3_1f(pre.humidity))
                  => out.measurement = "True"

\* A cycle whose measurement failed on a busy frame, after a cycle that
\* measured 10.625... %RH and 82.530... C: it prints 10.6 and 82.5 again.
C15_Witness ==
    /\ op = "read_sensor" /\ ret = "json" /\ out.measurement = "False"
    /\ measured /\ FrameAnswered /\ BusyBit(Frame[1])
    /\ out.humidity.tenths = 106 /\ out.temperature.tenths = 825

\* The 20-bit raw fields of a frame, by the layout of the data sheet.
RawHumidity(f) == f[2] * 4096 + f[3] * 16 + (f[4] \div 16)

RawTemperature(f) == (f[4] % 16) * 65536 + f[5] * 256 + f[6]

\* The frames that differ from arg in byte 3 only, and there in one nibble.
SameButHighNibble ==
    { [arg EXCEPT ![4] = 16 * h + (arg[4] % 16)] : h \in 0..15 }

SameButLowNibble ==
    { [arg EXCEPT ![4] = 16 * (arg[4] \div 16) + l] : l \in 0..15 }

\* The frames that differ from arg in byte 0 only, the busy bit left clear.
SameButStatus == { [arg EXCEPT ![1] = b] : b \in 0..127 }

\* The frames against which the order of the humidity values is compared.
HumidityOrderFrames ==
    { <<28, b1, b2, b3, 0, 0>> :
        b1 \in DecodeByteSamples, b2 \in DecodeByteSamples,
        b3 \in DecodeNibbleSamples }

C17_FieldsFromBytes ==
    (op = "measurement_done" /\ ret = "True")
        => /\ (_humidity \div 100) = arg[2] * 4096 + arg[3] * 16 + (arg[4] \div 16)
           /\ _humidity % 100 = 0
           /\ ((_temperature + 50 * 1048576) \div 200)
                  = (arg[4] % 16) * 65536 + arg[5] * 256 + arg[6]
           /\ (_temperature + 50 * 1048576) % 200 = 0
           /\ \A g \in SameButHighNibble :
                  /\ temperature_of(g) = _temperature
                  /\ g # arg => humidity_of(g) # _humidity
           /\ \A g \in SameButLowNibble :
                  /\ humidity_of(g) = _humidity
                  /\ g # arg => temperature_of(g) # _temperature
           /\ \A g \in SameButStatus :
                  LET m == measurement_done(FALSE, SubSeq(g, 1, 6), <<>>)
                  IN  /\ m.stored
                      /\ m.humidity = _humidity /\ m.temperature = _temperature

\* A frame decoded whose byte 3 has different nibbles: 0xA goes to the
\* humidity, 0x5 to the temperature.
C17_Witness ==
    /\ op = "measurement_done" /\ ret = "True"
    /\ arg = <<127, 1, 128, 165, 255, 0>>
    /\ _humidity = 100 * (4096 + 128 * 16 + 10)
    /\ _temperature = 200 * (5 * 65536 + 255 * 256) - 50 * 1048576

\* C14: for a 6-byte frame there is exactly one byte c for which
\* _check_crc8(c, frame) is True, and the 7-byte frame made of a 6-byte frame
\* without the busy bit and that byte is accepted by the measurement with
\* CRC checking enabled, while no other byte is.
C14_CrcRoundTrip ==
    /\ (op \in {"_check_crc8", "measurement_done"} /\ Len(arg) = 6)
           => Cardinality(out) = 1
    /\ (op = "measurement_done" /\ ~BusyBit(arg[1]))
           => /\ val \in out => (ret = "True" /\ exc = "none")
              /\ val \notin out => ret = "False"

\* The frame 1C 1B 33 5A 9A 3B with its CRC byte 0x8E accepted.
C14_Witness ==
    /\ op = "measurement_done" /\ arg = <<28, 27, 51, 90, 154, 59>>
    /\ out = {142} /\ val = 142 /\ ret = "True"

\* The accumulator of _check_crc8 on arg, which the loops do not mask.
Accumulator == crc8_bytes(CrcStart, arg, 0)

\* C20: _check_crc8 masks its accumulator once, after the loops, where it
\* has 8 more bits for every byte of data; its result for
\* every byte c is that of the CRC-8 with initial value 0xFF and polynomial
\* 0x31, MSB first, whose register is reduced modulo 2^8 after every shift.
C20_UnmaskedCrcIsCrc8 ==
    op = "_check_crc8"
        => /\ out = {Crc8Ref(arg)}
           /\ Len(Accumulator.high) = 8 * Len(arg)

\* _check_crc8 on three bytes: the accumulator has 24 bits above bit 7,
\* some of them set.
C20_Witness ==
    /\ op = "_check_crc8" /\ arg = <<28, 165, 255>>
    /\ Len(Accumulator.high) = 24
    /\ \E i \in 1..24 : Accumulator.high[i] = 1
    /\ Cardinality(out) = 1

\* C16: readinto(buf, start=s, end=e) that returns has read e - s bytes from
\* the device, len(buf) - s when end is not given, and the caller's buf
\* holds those bytes in order at positions s..e-1 and what it held before
\* elsewhere.  Stated for s <= e <= len(buf).
C16_ReadintoFillsBuf ==
    LET e == IF arg.end_given THEN arg.end ELSE Len(arg.buf)
        answer == bus[Len(bus)]
    IN  (op = "readinto" /\ exc = "none" /\ arg.start <= e /\ e <= Len(arg.buf))
            => /\ Len(bus) = 1
               /\ answer.op = "readfrom_into" /\ answer.addr = device_address
               /\ answer.n = e - arg.start
               /\ Len(out) = Len(arg.buf)
               /\ \A i \in 1..Len(arg.buf) :
                      out[i] = IF i > arg.start /\ i <= e
                               THEN answer.data[i - arg.start]
                               ELSE arg.buf[i]

\* C19: the construction of an I2CDevice with probe=True writes the empty
\* payload to the device address; it reads one byte when, and only when,
\* that write raised OSError; it raises ValueError when, and only when, both
\* the write and the read raised OSError, and raises nothing else.  With
\* probe=False it makes no bus transaction and raises nothing.
C19_ProbeWritesThenReads ==
    op = "I2CDevice"
        => /\ ~arg.probe => (bus = <<>> /\ exc = "none")
           /\ arg.probe
                  => /\ Len(bus) >= 1
                     /\ bus[1].op = "writeto" /\ bus[1].data = <<>>
                     /\ bus[1].addr = arg.device_address
                     /\ bus[1].ok => Len(bus) = 1
                     /\ ~bus[1].ok
                            => /\ Len(bus) = 2
                               /\ bus[2].op = "readfrom_into" /\ bus[2].n = 1
                               /\ bus[2].addr = arg.device_address
                     /\ exc = "ValueError" <=> (~bus[1].ok /\ ~bus[Len(bus)].ok)
                     /\ exc \in {"none", "ValueError"}
           /\ constructed <=> exc = "none"

\* A construction whose empty write raised and whose read of one byte was
\* answered: there is an I2CDevice.
C19_Witness ==
    /\ op = "I2CDevice" /\ arg.probe
    /\ Len(bus) = 2 /\ ~bus[1].ok /\ bus[2].ok
    /\ exc = "none" /\ constructed

====
